---- MODULE Spec2Model ----
(***************************************************************************)
(* Mesh Security provider side.                                            *)
(*                                                                         *)
(* The vault (contracts/provider/vault/src/contract.rs): collateral, liens *)
(* and the journal of pending cross-chain stake txs.  commit_tx and        *)
(* rollback_tx are the functions the callback handler is to call; they are *)
(* modelled as calls that any address may make.                            *)
(*                                                                         *)
(* The external-staking contract                                           *)
(* (contracts/provider/external-staking/src/contract.rs): its journal of   *)
(* pending stakes, receive_virtual_stake, commit_stake and rollback_stake, *)
(* and unstake and withdraw_unbonded with the block time now, and          *)
(* distribute_rewards and withdraw_rewards; distributed is, per validator, *)
(* the sum of the rewards distributed so far; page is the most recent      *)
(* all_pending_txs query and its response; es_pre is what the most recent   *)
(* external-staking call, if an accepted receive_virtual_stake, found.      *)
(*                                                                         *)
(* mesh_sync::ValueRange (packages/sync/src/range.rs): one range, the      *)
(* operations prepared on it and not yet resolved (adds, subs), and the    *)
(* history variables vr_last, vr_pre and vr_base.                          *)
(*                                                                         *)
(* Every entry point runs atomically; a call that returns Err or panics    *)
(* leaves the store as it was.  History variables observe the run: last    *)
(* and es_last are the most recent call's entry point and outcome in each  *)
(* contract; pre is the vault's store before the most recent accepted      *)
(* stake_remote, kept as long as nothing but the roll-back of that tx      *)
(* followed; acked is, per user and destination, the stake for which       *)
(* commit_tx returned Ok and that was not released since.                  *)
(***************************************************************************)
EXTENDS Integers, FiniteSets, Sequences, TLC

\* ------------------------------------------------------------------ bounds
\* amounts are whole multiples of 20 tokens, up to MaxSteps of them
MaxSteps == 1
\* no account bonds more than this
MaxCollateral == 20
\* no more txs than this are ever opened
MaxTx == 2

\* the amounts of the runs that follow the rounding of the slashable part
\* are 5, 10, .., 5 * MaxUnits
MaxUnits == 2

\* list queries are asked with no limit or with a limit of 0 .. MaxLimit
MaxLimit == 2

\* external-staking rewards: the scale of the distribution points (10^9 in
\* the contract, lowered here so that the products stay small integers), the
\* largest single stake of the runs that follow rewards (stakes are 1 or
\* MaxShare), the largest total stake of a validator and the largest sum of
\* rewards distributed to one validator in those runs
DistributionPointsScale == 1000
MaxShare == 3
MaxTotalStake == 4
MaxRewards == 3

\* external-staking: the unbonding period of the instantiation, and the
\* block time up to which runs are followed
UnbondingPeriod == 2
MaxTime == 3

\* ValueRange: the values passed to its operations are 1..MaxVal, and an
\* addition is prepared only while the upper bound stays within MaxRange
MaxVal == 2
MaxRange == 4

\* ------------------------------------------------------- program constants
DefaultPageLimit == 10
MaxPageLimit == 30
\* the slash ratio of the external-staking contract, in percent
SlashRatioPercent == 10
LocalMaxSlashPercent == 10
RemoteMaxSlashPercent == 5

\* ---------------------------------------------------------------- addresses
Users == {"user1", "user2"}
LocalStaking == "local"
CrossStaking == "cross"
Lienholders == {LocalStaking, CrossStaking}
Destinations == {CrossStaking}
Addrs == Users \cup Lienholders

Amounts == {20 * k : k \in 1..MaxSteps}
TxIds == 1..(MaxTx + 1)

NoUser == [absent |-> TRUE]
NoLien == [absent |-> TRUE]
NoTx == [absent |-> TRUE]
NoSnap == [absent |-> TRUE]
NoStake == [absent |-> TRUE]
NoDistribution == [absent |-> TRUE]
NoRange == [absent |-> TRUE]
NoPage == [absent |-> TRUE]

\* the vault's address as the external-staking contract knows it
Vault == "vault"
Validators == {"val1", "val2"}
\* the user and the validator of the runs that follow a single account
PairUser == "user1"
PairValidator == "val1"
RangeVals == 1..MaxVal
RangeCaps == 0..MaxRange

VARIABLES users, liens, pending, tx_count, last, pre, acked,
          stakes, distribution, pending_txs, es_last, now, distributed, page, es_pre,
          range, adds, subs, vr_last, vr_pre, vr_base

vars == <<users, liens, pending, tx_count, last, pre, acked,
          stakes, distribution, pending_txs, es_last, now, distributed, page, es_pre,
          range, adds, subs, vr_last, vr_pre, vr_base>>
\* the vault's store
store == <<users, liens, pending, tx_count>>
\* the external-staking contract's store
es_store == <<stakes, distribution, pending_txs>>
es == <<es_store, es_last, now, distributed, page, es_pre>>
vr == <<range, adds, subs, vr_last, vr_pre, vr_base>>
vault == <<store, last, pre, acked>>

\* ------------------------------------------------------------ pure helpers
Max(a, b) == IF a >= b THEN a ELSE b

\* Uint128 * Decimal: the product rounded down
MulDecimal(amount, percent) == (amount * percent) \div 100

\* UserInfo::default()
DefaultUser == [collateral |-> 0, max_lien |-> 0, total_slashable |-> 0]

UsedCollateral(user) == Max(user.max_lien, user.total_slashable)

VerifyCollateral(user) == user.collateral >= UsedCollateral(user)

\* Uint128 subtraction: defined only when it does not underflow
FreeCollateral(user) == user.collateral - UsedCollateral(user)

\* users.may_load(..).unwrap_or_default()
MayLoadUser(us, addr) == IF us[addr] = NoUser THEN DefaultUser ELSE us[addr]

\* liens.may_load(..).unwrap_or(Lien { amount: 0, slashable })
MayLoadLien(ls, user, lienholder, slashable) ==
  IF ls[<<user, lienholder>>] = NoLien
  THEN [amount |-> 0, slashable |-> slashable]
  ELSE ls[<<user, lienholder>>]

\* the max_slash a staking contract answers to the vault's query
MaxSlash(contract) ==
  IF contract = LocalStaking THEN LocalMaxSlashPercent ELSE RemoteMaxSlashPercent

RECURSIVE SumTxs(_, _)
SumTxs(pend, ids) ==
  IF ids = {} THEN 0
  ELSE LET i == CHOOSE x \in ids : TRUE
       IN pend[i].amount + SumTxs(pend, ids \ {i})

\* the sum folded over pending.txs.idx.users.prefix(sender)
PendingStakeSum(pend, sender) ==
  SumTxs(pend, {i \in DOMAIN pend : pend[i] # NoTx /\ pend[i].user = sender
                                     /\ pend[i].ty = "Stake"})

\* the id taken from the number of rows now pending
NextTxId_FromRows(count) ==
  Cardinality({i \in DOMAIN pending : pending[i] # NoTx}) + 1

\* fn next_tx_id
NextTxId(count) == count + 1

\* the largest lien of owner, folded over liens.prefix(owner)
RECURSIVE FoldMaxLien(_, _, _)
FoldMaxLien(ls, owner, lhs) ==
  IF lhs = {} THEN 0
  ELSE LET lh == CHOOSE x \in lhs : TRUE
           rest == FoldMaxLien(ls, owner, lhs \ {lh})
       IN IF ls[<<owner, lh>>] = NoLien THEN rest
          ELSE Max(rest, ls[<<owner, lh>>].amount)

\* ------------------------------------------------------- call bookkeeping
Call(op, res, info) == [op |-> op, res |-> res, info |-> info]

\* a call that returned Err (or panicked): the store is rolled back
Fail(op, res, info) ==
  /\ last' = Call(op, res, info)
  /\ pre' = NoSnap
  /\ UNCHANGED <<store, acked, es, vr>>

Init ==
  /\ users = [a \in Addrs |-> NoUser]
  /\ liens = [k \in Addrs \X Lienholders |-> NoLien]
  /\ pending = [i \in TxIds |-> NoTx]
  /\ tx_count = 0
  /\ last = Call("init", "ok", 0)
  /\ pre = NoSnap
  /\ acked = [k \in Users \X Destinations |-> 0]
  /\ stakes = [k \in Users \X Validators |-> NoStake]
  /\ distribution = [v \in Validators |-> NoDistribution]
  /\ pending_txs = [i \in TxIds |-> NoTx]
  /\ es_last = Call("init", "ok", 0)
  /\ now = 0
  /\ distributed = [v \in Validators |-> 0]
  /\ page = NoPage
  /\ es_pre = NoSnap
  /\ range = NoRange
  /\ adds = [v \in RangeVals |-> 0]
  /\ subs = [v \in RangeVals |-> 0]
  /\ vr_last = [op |-> "init", res |-> "ok"]
  /\ vr_pre = NoSnap
  /\ vr_base = 0

\* ---------------------------------------------------------------- handlers
Bond(sender, amount) ==
  LET user == MayLoadUser(users, sender) IN
  /\ user.collateral + amount <= MaxCollateral
  /\ users' = [users EXCEPT ![sender] = [user EXCEPT !.collateral = @ + amount]]
  /\ last' = Call("bond", "ok", 0)
  /\ pre' = NoSnap
  /\ UNCHANGED <<liens, pending, tx_count, acked, es, vr>>

Unbond(sender, amount) ==
  LET user == MayLoadUser(users, sender) IN
  IF ~VerifyCollateral(user)
  THEN Fail("unbond", "Panic", 0)
  ELSE IF ~(FreeCollateral(user) >= amount)
  THEN Fail("unbond", "ClaimsLocked", FreeCollateral(user))
  ELSE /\ users' = [users EXCEPT ![sender] = [user EXCEPT !.collateral = @ - amount]]
       /\ last' = Call("unbond", "ok", 0)
       /\ pre' = NoSnap
       /\ UNCHANGED <<liens, pending, tx_count, acked, es, vr>>

\* fn stake: the lien and the user record after adding amount to the
\* (sender, lienholder) lien
\* the lien set to the amount staked instead of raised by it
StakeLien_Set(ls, sender, lienholder, slashable, amount) ==
  [MayLoadLien(ls, sender, lienholder, slashable) EXCEPT !.amount = amount]

StakeLien(ls, sender, lienholder, slashable, amount) ==
  [MayLoadLien(ls, sender, lienholder, slashable) EXCEPT !.amount = @ + amount]

StakeUser(us, ls, sender, lienholder, slashable, amount) ==
  LET lien == StakeLien(ls, sender, lienholder, slashable, amount) IN
  [MayLoadUser(us, sender) EXCEPT
     !.max_lien = Max(@, lien.amount),
     !.total_slashable = @ + MulDecimal(amount, lien.slashable)]

StakeLocal(sender, amount) ==
  LET lien == StakeLien(liens, sender, LocalStaking, LocalMaxSlashPercent, amount)
      user == StakeUser(users, liens, sender, LocalStaking, LocalMaxSlashPercent, amount)
  IN
  IF ~VerifyCollateral(user)
  THEN Fail("stake_local", "InsufficentBalance", 0)
  ELSE /\ liens' = [liens EXCEPT ![<<sender, LocalStaking>>] = lien]
       /\ users' = [users EXCEPT ![sender] = user]
       /\ last' = Call("stake_local", "ok", 0)
       /\ pre' = NoSnap
       /\ UNCHANGED <<pending, tx_count, acked, es, vr>>

\* fn maybe_stake: amount plus the sender's pending Stake txs
PendingAmount(pend, sender, amount) == amount + PendingStakeSum(pend, sender)

\* liens added up instead of the largest one taken
MaybeStakeUser_Sum(us, ls, pend, sender, lienholder, slashable, amount) ==
  LET pending_amount == PendingAmount(pend, sender, amount)
      lien == MayLoadLien(ls, sender, lienholder, slashable)
  IN
  [MayLoadUser(us, sender) EXCEPT
     !.max_lien = @ + pending_amount,
     !.total_slashable = @ + MulDecimal(pending_amount, lien.slashable)]

\* fn maybe_stake: the user record the collateral check is made on (never saved)
MaybeStakeUser(us, ls, pend, sender, lienholder, slashable, amount) ==
  LET pending_amount == PendingAmount(pend, sender, amount)
      lien == MayLoadLien(ls, sender, lienholder, slashable)
  IN
  [MayLoadUser(us, sender) EXCEPT
     !.max_lien = Max(@, pending_amount),
     !.total_slashable = @ + MulDecimal(pending_amount, lien.slashable)]

\* the checked user record saved with the tx
MaybeStakeUsers_Saved(us, sender, user) == [us EXCEPT ![sender] = user]

\* fn maybe_stake: the users map it leaves ("update (but do not save) user info")
MaybeStakeUsers(us, sender, user) == us

NewTx(sender, lienholder, slashable, amount) ==
  [ty |-> "Stake", amount |-> amount, slashable |-> slashable,
   user |-> sender, lienholder |-> lienholder]

\* The destination is taken to accept the receive_virtual_stake message.
StakeRemoteWith(sender, contract, slashable, amount) ==
  LET user == MaybeStakeUser(users, liens, pending, sender, contract, slashable, amount)
      tx_id == NextTxId(tx_count)
  IN
  IF ~VerifyCollateral(user)
  THEN Fail("stake_remote", "InsufficentBalance", 0)
  ELSE /\ tx_count < MaxTx
       /\ tx_count' = tx_id
       /\ pending' = [pending EXCEPT ![tx_id] = NewTx(sender, contract, slashable, amount)]
       /\ last' = Call("stake_remote", "ok", 0)
       /\ users' = MaybeStakeUsers(users, sender, user)
       /\ pre' = [users |-> users, liens |-> liens, pending |-> pending]
       /\ UNCHANGED <<liens, acked, es, vr>>

\* fn stake_remote on a destination that answers the max_slash query as the
\* external-staking contract does
StakeRemote(sender, contract, amount) ==
  StakeRemoteWith(sender, contract, MaxSlash(contract), amount)

\* fn commit_tx: the keys the lien and the user record are saved under
CommitLienKey(sender, tx) == <<sender, tx.lienholder>>

CommitUserKey(sender, tx) == sender

\* the sender check left out
RightContract_Any(tx, sender) == TRUE

\* fn commit_tx / rollback_tx: "Verify tx comes from the right contract"
RightContract(tx, sender) == tx.lienholder = sender

\* the row left in place
RemoveTx_Keep(pend, tx_id) == pend

\* the whole journal cleared
RemoveTx_All(pend, tx_id) == [i \in DOMAIN pend |-> NoTx]

\* pending.txs.remove
RemoveTx(pend, tx_id) == [pend EXCEPT ![tx_id] = NoTx]

CommitTx(sender, tx_id) ==
  IF pending[tx_id] = NoTx
  THEN Fail("commit_tx", "NotFound", 0)
  ELSE
    LET tx == pending[tx_id]
        lien == StakeLien(liens, tx.user, tx.lienholder, tx.slashable, tx.amount)
        user == StakeUser(users, liens, tx.user, tx.lienholder, tx.slashable, tx.amount)
    IN
    IF ~RightContract(tx, sender)
    THEN Fail("commit_tx", "WrongContractTx", 0)
    ELSE IF ~VerifyCollateral(user)
    THEN Fail("commit_tx", "InsufficentBalance", 0)
    ELSE /\ liens' = [liens EXCEPT ![CommitLienKey(sender, tx)] = lien]
         /\ users' = [users EXCEPT ![CommitUserKey(sender, tx)] = user]
         /\ pending' = RemoveTx(pending, tx_id)
         /\ last' = Call("commit_tx", "ok", 0)
         /\ pre' = NoSnap
         /\ acked' = [acked EXCEPT ![<<tx.user, tx.lienholder>>] = @ + tx.amount]
         /\ UNCHANGED <<tx_count, es, vr>>

RollbackTx(sender, tx_id) ==
  IF pending[tx_id] = NoTx
  THEN Fail("rollback_tx", "NotFound", 0)
  ELSE
    LET tx == pending[tx_id] IN
    IF ~RightContract(tx, sender)
    THEN Fail("rollback_tx", "WrongContractTx", 0)
    ELSE /\ pending' = RemoveTx(pending, tx_id)
         /\ last' = Call("rollback_tx", "ok", 0)
         /\ pre' = IF last = Call("stake_remote", "ok", 0) /\ tx_id = tx_count
                   THEN pre ELSE NoSnap
         /\ UNCHANGED <<users, liens, tx_count, acked, es, vr>>

\* fn unstake, shared by release_cross_stake and release_local_stake: the
\* outcome and the liens and users it saves
UnstakeOutcome(sender, owner, amount) ==
  IF sender \notin Lienholders \/ liens[<<owner, sender>>] = NoLien
  THEN [res |-> "UnknownLienholder"]
  ELSE
    LET lien0 == liens[<<owner, sender>>]
        lien == [lien0 EXCEPT !.amount = @ - amount]
        liens1 == [liens EXCEPT ![<<owner, sender>>] = lien]
        slashed == MulDecimal(amount, lien.slashable)
    IN
    IF ~(lien0.amount >= amount)
    THEN [res |-> "InsufficientLien"]
    ELSE IF users[owner] = NoUser
    THEN [res |-> "NotFound"]
    ELSE IF users[owner].total_slashable < slashed
    THEN [res |-> "Panic"]
    ELSE [res |-> "ok",
          liens |-> liens1,
          users |-> [users EXCEPT ![owner] =
                       [@ EXCEPT !.max_lien = FoldMaxLien(liens1, owner, Lienholders),
                                 !.total_slashable = @ - slashed]]]

\* the vault's part of a successful release
Released(op, out, sender, owner, amount) ==
  /\ liens' = out.liens
  /\ users' = out.users
  /\ last' = Call(op, "ok", 0)
  /\ pre' = NoSnap
  /\ acked' = [k \in DOMAIN acked |->
                 IF k = <<owner, sender>> THEN Max(acked[k] - amount, 0)
                 ELSE acked[k]]
  /\ UNCHANGED <<pending, tx_count>>

Unstake(op, sender, owner, amount) ==
  LET out == UnstakeOutcome(sender, owner, amount) IN
  IF out.res # "ok"
  THEN Fail(op, out.res, 0)
  ELSE /\ Released(op, out, sender, owner, amount)
       /\ UNCHANGED <<es, vr>>

ReleaseCrossStake(sender, owner, amount) ==
  Unstake("release_cross_stake", sender, owner, amount)

ReleaseLocalStake(sender, owner, amount) ==
  Unstake("release_local_stake", sender, owner, amount)

\* ------------------------------------ external-staking: the tx journal
\* Lockable<Stake>::default() and Lockable<Distribution>::default()
DefaultStake ==
  [lock |-> "Unlocked", stake |-> 0, pending_unbonds |-> <<>>,
   points_alignment |-> 0, withdrawn_funds |-> 0]

DefaultDistribution ==
  [lock |-> "Unlocked", total_stake |-> 0, points_per_stake |-> 0,
   points_leftover |-> 0]

\* stakes.may_load(..).unwrap_or_default()
MayLoadStake(ss, owner, validator) ==
  IF ss[<<owner, validator>>] = NoStake THEN DefaultStake ELSE ss[<<owner, validator>>]

\* distribution.may_load(..).unwrap_or_default()
MayLoadDistribution(ds, validator) ==
  IF ds[validator] = NoDistribution THEN DefaultDistribution ELSE ds[validator]

\* Lockable::lock_write is refused unless the value is unlocked
CanLockWrite(l) == l.lock = "Unlocked"

\* Lockable::unlock_write is refused unless the value is write-locked
CanUnlockWrite(l) == l.lock = "WriteLocked"

\* Lockable::read is refused while the value is write-locked
CanRead(l) == l.lock # "WriteLocked"

\* Lockable::write is refused unless the value is unlocked
CanWrite(l) == l.lock = "Unlocked"

\* PointsAlignment::stake_increased
StakeIncreased(alignment, amount, points_per_stake) ==
  alignment - points_per_stake * amount

\* the alignment moved the way stake_increased moves it
StakeDecreased_Down(alignment, amount, points_per_stake) ==
  alignment - points_per_stake * amount

\* PointsAlignment::stake_decreased
StakeDecreased(alignment, amount, points_per_stake) ==
  alignment + points_per_stake * amount

\* Stake::release_pending: the matured unbonds leave the queue and their
\* amounts are summed
Matured(unbond, time) == unbond.release_at <= time

RECURSIVE SumUnbonds(_)
SumUnbonds(unbonds) ==
  IF unbonds = <<>> THEN 0
  ELSE Head(unbonds).amount + SumUnbonds(Tail(unbonds))

ReleasedAmount(unbonds, time) ==
  SumUnbonds(SelectSeq(unbonds, LAMBDA u : Matured(u, time)))

KeptUnbonds(unbonds, time) ==
  SelectSeq(unbonds, LAMBDA u : ~Matured(u, time))

EsNewTx(tx_id, owner, validator, amount) ==
  [id |-> tx_id, ty |-> "InFlightRemoteStaking", amount |-> amount,
   user |-> owner, validator |-> validator]

\* the row left in the journal
EsRemoveTx_Keep(txs, tx_id) == txs

EsRemoveTx(txs, tx_id) == [txs EXCEPT ![tx_id] = NoTx]

\* a call that returned Err: the store is rolled back
EsFail(op, res) ==
  /\ es_last' = Call(op, res, 0)
  /\ es_pre' = NoSnap
  /\ UNCHANGED <<es_store, now, distributed, page, vault, vr>>

ReceiveVirtualStake(sender, owner, amount, tx_id, validator) ==
  LET stake_lock == MayLoadStake(stakes, owner, validator)
      distribution_lock == MayLoadDistribution(distribution, validator)
  IN
  IF sender # Vault
  THEN EsFail("receive_virtual_stake", "Unauthorized")
  ELSE IF ~CanLockWrite(stake_lock) \/ ~CanLockWrite(distribution_lock)
  THEN EsFail("receive_virtual_stake", "LockError")
  ELSE /\ stake_lock.stake + amount <= MaxCollateral
       /\ stakes' = [stakes EXCEPT ![<<owner, validator>>] =
                       [stake_lock EXCEPT !.lock = "WriteLocked"]]
       /\ distribution' = [distribution EXCEPT ![validator] =
                             [distribution_lock EXCEPT !.lock = "WriteLocked"]]
       /\ pending_txs' = [pending_txs EXCEPT ![tx_id] =
                            EsNewTx(tx_id, owner, validator, amount)]
       /\ es_last' = Call("receive_virtual_stake", "ok", 0)
       /\ es_pre' = [id |-> tx_id, user |-> owner, validator |-> validator,
                     stake |-> stake_lock, distribution |-> distribution_lock]
       /\ UNCHANGED <<now, distributed, page, vault, vr>>

CommitStake(tx_id) ==
  IF pending_txs[tx_id] = NoTx
  THEN EsFail("commit_stake", "NotFound")
  ELSE
    LET tx == pending_txs[tx_id]
        stake_lock == stakes[<<tx.user, tx.validator>>]
        distribution_lock == distribution[tx.validator]
    IN
    IF stake_lock = NoStake \/ distribution_lock = NoDistribution
    THEN EsFail("commit_stake", "NotFound")
    ELSE IF ~CanUnlockWrite(stake_lock) \/ ~CanUnlockWrite(distribution_lock)
    THEN EsFail("commit_stake", "LockError")
    ELSE /\ stakes' = [stakes EXCEPT ![<<tx.user, tx.validator>>] =
                         [stake_lock EXCEPT
                            !.lock = "Unlocked",
                            !.stake = @ + tx.amount,
                            !.points_alignment =
                               StakeIncreased(@, tx.amount,
                                              distribution_lock.points_per_stake)]]
         /\ distribution' = [distribution EXCEPT ![tx.validator] =
                               [distribution_lock EXCEPT
                                  !.lock = "Unlocked",
                                  !.total_stake = @ + tx.amount]]
         /\ pending_txs' = EsRemoveTx(pending_txs, tx_id)
         /\ es_last' = Call("commit_stake", "ok", 0)
         /\ es_pre' = NoSnap
         /\ UNCHANGED <<now, distributed, page, vault, vr>>

RollbackStake(tx_id) ==
  IF pending_txs[tx_id] = NoTx
  THEN EsFail("rollback_stake", "NotFound")
  ELSE
    LET tx == pending_txs[tx_id]
        stake_lock == stakes[<<tx.user, tx.validator>>]
        distribution_lock == distribution[tx.validator]
    IN
    IF stake_lock = NoStake \/ distribution_lock = NoDistribution
    THEN EsFail("rollback_stake", "NotFound")
    ELSE IF ~CanUnlockWrite(stake_lock) \/ ~CanUnlockWrite(distribution_lock)
    THEN EsFail("rollback_stake", "LockError")
    ELSE /\ stakes' = [stakes EXCEPT ![<<tx.user, tx.validator>>] =
                         [stake_lock EXCEPT !.lock = "Unlocked"]]
         /\ distribution' = [distribution EXCEPT ![tx.validator] =
                               [distribution_lock EXCEPT !.lock = "Unlocked"]]
         /\ pending_txs' = EsRemoveTx(pending_txs, tx_id)
         /\ es_last' = Call("rollback_stake", "ok", 0)
         /\ es_pre' = NoSnap
         /\ UNCHANGED <<now, distributed, page, vault, vr>>

\* the Err of a call that reports a value
EsFailWith(op, res, info) ==
  /\ es_last' = Call(op, res, info)
  /\ es_pre' = NoSnap
  /\ UNCHANGED <<es_store, now, distributed, page, vault, vr>>

\* fn unstake of the external-staking contract
\* distribution.total_stake -= amount.amount in unstake
TotalStakeDecreased_Kept(distribution_lock, amount) == distribution_lock

TotalStakeDecreased(distribution_lock, amount) ==
  [distribution_lock EXCEPT !.total_stake = @ - amount]

EsUnstake(sender, validator, amount) ==
  LET stake_lock == MayLoadStake(stakes, sender, validator)
      distribution_lock == distribution[validator]
      release_at == now + UnbondingPeriod
      unbond == [amount |-> amount, release_at |-> release_at]
  IN
  IF ~CanRead(stake_lock)
  THEN EsFail("unstake", "LockError")
  ELSE IF distribution_lock = NoDistribution
  THEN EsFail("unstake", "NotFound")
  ELSE IF ~CanWrite(distribution_lock)
  THEN EsFail("unstake", "LockError")
  ELSE IF ~(stake_lock.stake >= amount)
  THEN EsFailWith("unstake", "NotEnoughStake", stake_lock.stake)
  ELSE IF ~CanWrite(stake_lock)
  THEN EsFail("unstake", "LockError")
  ELSE IF distribution_lock.total_stake < amount
  THEN EsFail("unstake", "Panic")
  ELSE IF ~CanLockWrite(stake_lock)
  THEN EsFail("unstake", "LockError")
  ELSE /\ stakes' = [stakes EXCEPT ![<<sender, validator>>] =
                       [stake_lock EXCEPT
                          !.stake = @ - amount,
                          !.pending_unbonds = Append(@, unbond),
                          !.points_alignment =
                             StakeDecreased(@, amount,
                                            distribution_lock.points_per_stake),
                          !.lock = "WriteLocked"]]
       /\ distribution' = [distribution EXCEPT ![validator] =
                             TotalStakeDecreased(distribution_lock, amount)]
       /\ es_last' = Call("unstake", "ok", 0)
       /\ es_pre' = NoSnap
       /\ UNCHANGED <<pending_txs, now, distributed, page, vault, vr>>

\* the validators on which the sender has a stake record
StakeRows(sender) == {v \in Validators : stakes[<<sender, v>>] # NoStake}

\* the closure of withdraw_unbonded on one stake record: stake_lock.write()?
\* and release_pending, giving the outcome, the amount released and the
\* record to save
ReleasePending_All(stake_lock, time) ==
  [res |-> "ok",
   released |-> SumUnbonds(stake_lock.pending_unbonds),
   stake |-> [stake_lock EXCEPT !.pending_unbonds = <<>>]]

ReleasePending(stake_lock, time) ==
  IF ~CanWrite(stake_lock)
  THEN [res |-> "LockError", released |-> 0, stake |-> stake_lock]
  ELSE [res |-> "ok",
        released |-> ReleasedAmount(stake_lock.pending_unbonds, time),
        stake |-> [stake_lock EXCEPT !.pending_unbonds = KeptUnbonds(@, time)]]

RECURSIVE SumReleased(_, _)
SumReleased(outs, vs) ==
  IF vs = {} THEN 0
  ELSE LET v == CHOOSE x \in vs : TRUE
       IN outs[v].released + SumReleased(outs, vs \ {v})

\* fn withdraw_unbonded.  The release_cross_stake message of the response
\* runs in the vault within the same transaction, with the external-staking
\* contract as its sender; if the vault refuses it the whole call fails.
WithdrawUnbonded(sender) ==
  LET rows == StakeRows(sender)
      outs == [v \in rows |-> ReleasePending(stakes[<<sender, v>>], now)]
      released == SumReleased(outs, rows)
      stakes1 == [k \in DOMAIN stakes |->
                    IF k[1] = sender /\ k[2] \in rows
                    THEN outs[k[2]].stake
                    ELSE stakes[k]]
      out == UnstakeOutcome(CrossStaking, sender, released)
  IN
  IF \E v \in rows : outs[v].res # "ok"
  THEN EsFail("withdraw_unbonded", "LockError")
  ELSE IF released = 0
  THEN /\ stakes' = stakes1
       /\ es_last' = Call("withdraw_unbonded", "ok", 0)
       /\ es_pre' = NoSnap
       /\ UNCHANGED <<distribution, pending_txs, now, distributed, page, vault, vr>>
  ELSE IF out.res # "ok"
  THEN EsFail("withdraw_unbonded", out.res)
  ELSE /\ stakes' = stakes1
       /\ es_last' = Call("withdraw_unbonded", "ok", released)
       /\ Released("release_cross_stake", out, CrossStaking, sender, released)
       /\ es_pre' = NoSnap
       /\ UNCHANGED <<distribution, pending_txs, now, distributed, page, vr>>

\* PointsAlignment::align: the signed alignment is added to the points
Align(alignment, points) == points + alignment

\* the reward with what was already withdrawn not taken off
CalculateReward_Gross(stake, dist) ==
  LET points == Align(stake.points_alignment, dist.points_per_stake * stake.stake)
  IN IF points < 0
     THEN [res |-> "ConversionOverflow", amount |-> 0]
     ELSE [res |-> "ok", amount |-> points \div DistributionPointsScale]

\* fn calculate_reward: the outcome and the amount
CalculateReward(stake, dist) ==
  LET points == Align(stake.points_alignment, dist.points_per_stake * stake.stake)
      total == points \div DistributionPointsScale
  IN IF points < 0
     THEN [res |-> "ConversionOverflow", amount |-> 0]
     ELSE IF total < stake.withdrawn_funds
     THEN [res |-> "Panic", amount |-> 0]
     ELSE [res |-> "ok", amount |-> total - stake.withdrawn_funds]

\* the points each unit of stake earns from a distribution
PointsPerStake_Undivided(points_distributed, total_stake) == points_distributed

PointsPerStake(points_distributed, total_stake) ==
  points_distributed \div total_stake

\* the remainder of the division thrown away
PointsLeftover_Dropped(points_distributed, points_per_stake, total_stake) == 0

\* fn distribute_rewards: the points not handed out, carried to the next call
PointsLeftover(points_distributed, points_per_stake, total_stake) ==
  points_distributed - points_per_stake * total_stake

\* fn distribute_rewards; amount is what must_pay finds in the funds sent
DistributeRewards(validator, amount) ==
  LET distribution_lock == MayLoadDistribution(distribution, validator)
      total_stake == distribution_lock.total_stake
      points_distributed ==
        amount * DistributionPointsScale + distribution_lock.points_leftover
      points_per_stake == PointsPerStake(points_distributed, total_stake)
  IN
  IF amount = 0
  THEN EsFail("distribute_rewards", "NoFunds")
  ELSE IF ~CanWrite(distribution_lock)
  THEN EsFail("distribute_rewards", "LockError")
  ELSE IF total_stake = 0
  THEN EsFail("distribute_rewards", "Panic")
  ELSE /\ distribution' = [distribution EXCEPT ![validator] =
                             [distribution_lock EXCEPT
                                !.points_leftover =
                                   PointsLeftover(points_distributed,
                                                  points_per_stake, total_stake),
                                !.points_per_stake = @ + points_per_stake]]
       /\ distributed' = [distributed EXCEPT ![validator] = @ + amount]
       /\ es_last' = Call("distribute_rewards", "ok", 0)
       /\ es_pre' = NoSnap
       /\ UNCHANGED <<stakes, pending_txs, now, page, vault, vr>>

\* fn withdraw_rewards; the amount sent to the caller is reported
WithdrawRewards(sender, validator) ==
  LET stake_lock == MayLoadStake(stakes, sender, validator)
      distribution_lock == MayLoadDistribution(distribution, validator)
      out == CalculateReward(stake_lock, distribution_lock)
  IN
  IF ~CanWrite(stake_lock) \/ ~CanWrite(distribution_lock)
  THEN EsFail("withdraw_rewards", "LockError")
  ELSE IF out.res # "ok"
  THEN EsFail("withdraw_rewards", out.res)
  ELSE /\ stakes' = IF out.amount = 0 THEN stakes
                    ELSE [stakes EXCEPT ![<<sender, validator>>] =
                            [stake_lock EXCEPT !.withdrawn_funds = @ + out.amount]]
       /\ es_last' = Call("withdraw_rewards", "ok", out.amount)
       /\ es_pre' = NoSnap
       /\ UNCHANGED <<distribution, pending_txs, now, distributed, page, vault, vr>>

\* ---------------------------------------------------------------- slashing
\* the slash taken from one stake: the stake times the slash ratio, truncated
SlashAmount(stake) == MulDecimal(stake, SlashRatioPercent)

\* the vault's part of a slash: amount is taken from the owner's collateral
\* and from the lien the slashing contract holds; a lien the remaining
\* collateral no longer covers is cut down to it; total_slashable is lowered
\* by the slashable part of what each lien lost and max_lien is recomputed
\* from the liens
SlashOutcome(lienholder, owner, amount) ==
  IF liens[<<owner, lienholder>>] = NoLien \/ users[owner] = NoUser
  THEN [res |-> "NotFound"]
  ELSE IF liens[<<owner, lienholder>>].amount < amount
          \/ users[owner].collateral < amount
  THEN [res |-> "Panic"]
  ELSE
    LET new_collateral == users[owner].collateral - amount
        taken(lh) == IF lh = lienholder THEN liens[<<owner, lh>>].amount - amount
                     ELSE liens[<<owner, lh>>].amount
        left(lh) == IF taken(lh) <= new_collateral THEN taken(lh) ELSE new_collateral
        held == {lh \in Lienholders : liens[<<owner, lh>>] # NoLien}
        new_liens == [k \in DOMAIN liens |->
                        IF k[1] = owner /\ k[2] \in held
                        THEN [liens[k] EXCEPT !.amount = left(k[2])]
                        ELSE liens[k]]
        RECURSIVE lost(_)
        lost(lhs) ==
          IF lhs = {} THEN 0
          ELSE LET lh == CHOOSE x \in lhs : TRUE
               IN MulDecimal(liens[<<owner, lh>>].amount - left(lh),
                             liens[<<owner, lh>>].slashable)
                  + lost(lhs \ {lh})
    IN IF users[owner].total_slashable < lost(held)
       THEN [res |-> "Panic"]
       ELSE [res |-> "ok", liens |-> new_liens,
             user |-> [collateral |-> new_collateral,
                       max_lien |-> FoldMaxLien(new_liens, owner, Lienholders),
                       total_slashable |-> users[owner].total_slashable - lost(held)]]

RECURSIVE SumSlashed(_, _)
SumSlashed(validator, owners) ==
  IF owners = {} THEN 0
  ELSE LET o == CHOOSE x \in owners : TRUE
       IN SlashAmount(stakes[<<o, validator>>].stake)
          + SumSlashed(validator, owners \ {o})

\* handle_slashing of the external-staking contract: every stake on the
\* validator loses the slash ratio of its amount, and the vault takes the
\* same amount from the owner's lien and collateral; an error of the vault
\* fails the whole call
HandleSlashing(validator) ==
  LET owners == {o \in Users : /\ stakes[<<o, validator>>] # NoStake
                                /\ SlashAmount(stakes[<<o, validator>>].stake) > 0}
      out(o) == SlashOutcome(CrossStaking, o, SlashAmount(stakes[<<o, validator>>].stake))
  IN IF \E o \in owners : out(o).res # "ok"
     THEN EsFail("handle_slashing",
                 out(CHOOSE o \in owners : out(o).res # "ok").res)
     ELSE /\ stakes' = [k \in DOMAIN stakes |->
                          IF k[2] = validator /\ k[1] \in owners
                          THEN [stakes[k] EXCEPT !.stake = @ - SlashAmount(@)]
                          ELSE stakes[k]]
          /\ distribution' =
               IF owners = {} THEN distribution
               ELSE [distribution EXCEPT ![validator] =
                       [@ EXCEPT !.total_stake = @ - SumSlashed(validator, owners)]]
          /\ liens' = [k \in DOMAIN liens |->
                         IF k[1] \in owners THEN out(k[1]).liens[k] ELSE liens[k]]
          /\ users' = [a \in DOMAIN users |->
                         IF a \in owners THEN out(a).user ELSE users[a]]
          /\ es_last' = Call("handle_slashing", "ok", Cardinality(owners))
          /\ es_pre' = NoSnap
          /\ UNCHANGED <<pending_txs, now, distributed, page,
                         pending, tx_count, last, pre, acked, vr>>

\* fn clamp_page_limit; limit is an Option: {} is None and {l} is Some(l)
ClampPageLimit(limit) ==
  LET given == IF limit = {} THEN DefaultPageLimit ELSE CHOOSE l \in limit : TRUE
  IN Max(given, MaxPageLimit)

\* range(.., Order::Descending)
RECURSIVE Descending(_)
Descending(ids) ==
  IF ids = {} THEN <<>>
  ELSE LET top == CHOOSE i \in ids : \A j \in ids : j <= i
       IN <<top>> \o Descending(ids \ {top})

\* Iterator::take
Take(items, n) == SubSeq(items, 1, IF Len(items) <= n THEN Len(items) ELSE n)

\* fn all_pending_txs of the external-staking contract: the ids of the rows
\* of the response, newest first; start_after is an Option
AllPendingTxs(start_after, limit) ==
  LET rows == {i \in TxIds : /\ pending_txs[i] # NoTx
                             /\ \A b \in start_after : i < b}
  IN /\ page' = [start_after |-> start_after, limit |-> limit,
                 txs |-> Take(Descending(rows), ClampPageLimit(limit))]
     /\ es_last' = Call("all_pending_txs", "ok", 0)
     /\ es_pre' = NoSnap
     /\ UNCHANGED <<es_store, now, distributed, vault, vr>>

\* the block time moves on between calls; it is followed from the first
\* unstake on, the only call that reads it before withdraw_unbonded
Tick ==
  /\ now < MaxTime
  /\ \E k \in DOMAIN stakes : stakes[k] # NoStake /\ stakes[k].pending_unbonds # <<>>
  /\ now' = now + 1
  /\ es_pre' = NoSnap
  /\ UNCHANGED <<es_store, es_last, distributed, page, vault, vr>>

\* ------------------------------------------------------------ specifications
Next ==
  \/ \E s \in Users, a \in Amounts : Bond(s, a)
  \/ \E s \in Users, a \in Amounts : Unbond(s, a)
  \/ \E s \in Users, a \in Amounts : StakeLocal(s, a)
  \/ \E s \in Users, c \in Destinations, a \in Amounts : StakeRemote(s, c, a)
  \/ \E s \in Addrs, i \in TxIds : CommitTx(s, i)
  \/ \E s \in Addrs, i \in TxIds : RollbackTx(s, i)
  \/ \E s \in Lienholders, o \in Addrs, a \in Amounts : ReleaseCrossStake(s, o, a)
  \/ \E s \in Lienholders, o \in Addrs, a \in Amounts : ReleaseLocalStake(s, o, a)

\* the vault on its own
Spec == Init /\ [][Next]_vars

EsSenders == {Vault} \cup Users

NextES ==
  \/ \E s \in EsSenders, o \in Users, a \in Amounts, i \in TxIds, v \in Validators :
        ReceiveVirtualStake(s, o, a, i, v)
  \/ \E i \in TxIds : CommitStake(i)
  \/ \E i \in TxIds : RollbackStake(i)

\* The two contracts keep separate stores and neither handler modelled here
\* reads the other's, so a run of the pair is a run of each side by side.
\* SpecTx takes the runs in which one of the two contracts is called and the
\* other stays as instantiated.
VaultIdle == last.op = "init"
EsIdle == es_last.op = "init"

NextTx ==
  \/ \E s \in Users, a \in Amounts : EsIdle /\ Bond(s, a)
  \/ \E s \in Users, a \in Amounts : EsIdle /\ Unbond(s, a)
  \/ \E s \in Users, a \in Amounts : EsIdle /\ StakeLocal(s, a)
  \/ \E s \in Users, c \in Destinations, a \in Amounts :
        EsIdle /\ StakeRemote(s, c, a)
  \/ \E s \in Addrs, i \in TxIds : EsIdle /\ CommitTx(s, i)
  \/ \E s \in Addrs, i \in TxIds : EsIdle /\ RollbackTx(s, i)
  \/ \E s \in Lienholders, o \in Addrs, a \in Amounts :
        EsIdle /\ ReleaseCrossStake(s, o, a)
  \/ \E s \in Lienholders, o \in Addrs, a \in Amounts :
        EsIdle /\ ReleaseLocalStake(s, o, a)
  \/ \E s \in EsSenders, o \in Users, a \in Amounts, i \in TxIds, v \in Validators :
        VaultIdle /\ ReceiveVirtualStake(s, o, a, i, v)
  \/ \E i \in TxIds : VaultIdle /\ CommitStake(i)
  \/ \E i \in TxIds : VaultIdle /\ RollbackStake(i)

SpecTx == Init /\ [][NextTx]_vars

\* The vault with one user and amounts of which the slashable percentage is
\* not a whole number, so that amount * slashable is truncated.
UnitAmounts == {5 * k : k \in 1..MaxUnits}

NextUnits ==
  \/ \E a \in UnitAmounts : Bond(PairUser, a)
  \/ \E a \in UnitAmounts : Unbond(PairUser, a)
  \/ \E a \in UnitAmounts : StakeLocal(PairUser, a)
  \/ \E s \in Lienholders, a \in UnitAmounts : ReleaseCrossStake(s, PairUser, a)
  \/ \E s \in Lienholders, a \in UnitAmounts : ReleaseLocalStake(s, PairUser, a)

SpecUnits == Init /\ [][NextUnits]_vars

\* the external-staking contract on its own, called by the vault and by users
NextStaking ==
  \/ \E o \in Users, a \in Amounts, i \in TxIds, v \in Validators :
        ReceiveVirtualStake(Vault, o, a, i, v)
  \/ \E i \in TxIds : CommitStake(i)
  \/ \E i \in TxIds : RollbackStake(i)
  \/ \E s \in Users, v \in Validators, a \in Amounts : EsUnstake(s, v, a)
  \/ \E s \in Users : WithdrawUnbonded(s)
  \/ Tick

SpecStaking == Init /\ [][NextStaking]_vars

\* The rewards of one validator: stakes of 1 and MaxShare by two users, one
\* tx at a time (a second one is refused while the validator's distribution
\* is locked), rewards of 1 .. MaxRewards.
Shares == {1, MaxShare}

NextRewards ==
  \/ \E o \in Users, a \in Shares :
        /\ MayLoadDistribution(distribution, PairValidator).total_stake + a
             <= MaxTotalStake
        /\ ReceiveVirtualStake(Vault, o, a, 1, PairValidator)
  \/ CommitStake(1)
  \/ RollbackStake(1)
  \/ \E r \in 0..MaxRewards :
        /\ distributed[PairValidator] + r <= MaxRewards
        /\ DistributeRewards(PairValidator, r)
  \/ \E s \in Users : WithdrawRewards(s, PairValidator)

SpecRewards == Init /\ [][NextRewards]_vars

\* Rewards with stakes that grow and shrink: the calls of NextRewards and
\* the unstake of one of the users
NextAlign ==
  \/ NextRewards
  \/ \E a \in Shares : EsUnstake(PairUser, PairValidator, a)

SpecAlign == Init /\ [][NextAlign]_vars

\* The journal of the external-staking contract and its paginated query
PageLimits == {{}} \cup {{l} : l \in 0..MaxLimit}
PageStarts == {{}} \cup {{i} : i \in TxIds}

NextQuery ==
  \/ \E a \in Amounts, i \in TxIds, v \in Validators :
        /\ pending_txs[i] = NoTx
        /\ ReceiveVirtualStake(Vault, PairUser, a, i, v)
  \/ \E i \in TxIds : CommitStake(i)
  \/ \E i \in TxIds : RollbackStake(i)
  \/ \E b \in PageStarts, l \in PageLimits : AllPendingTxs(b, l)

SpecQuery == Init /\ [][NextQuery]_vars

\* One account staking on the two validators of the destination, and the
\* slashing of a validator
NextSlash ==
  \/ \E a \in Amounts : Bond(PairUser, a)
  \/ \E a \in Amounts : StakeLocal(PairUser, a)
  \/ \E a \in Amounts : StakeRemote(PairUser, CrossStaking, a)
  \/ \E i \in TxIds : CommitTx(CrossStaking, i)
  \/ \E i \in TxIds, v \in Validators :
        /\ pending[i] # NoTx
        /\ pending_txs[i] = NoTx
        /\ ReceiveVirtualStake(Vault, pending[i].user, pending[i].amount, i, v)
  \/ \E i \in TxIds : CommitStake(i)
  \/ \E v \in Validators : HandleSlashing(v)

SpecSlash == Init /\ [][NextSlash]_vars

\* stake_remote and the receive_virtual_stake it sends: the message carries
\* the sender and the amount of the row just persisted, and no tx id, so the
\* id the destination receives is any id; the vault's row is resolved once
\* the destination has resolved its own
NextForward ==
  \/ \E u \in Users, a \in Amounts : Bond(u, a)
  \/ \E u \in Users, a \in Amounts : StakeRemote(u, CrossStaking, a)
  \/ \E r \in TxIds, i \in TxIds, v \in Validators :
        /\ pending[r] # NoTx
        /\ r = tx_count
        /\ last = Call("stake_remote", "ok", 0)
        /\ es_last.op # "receive_virtual_stake"
        /\ ReceiveVirtualStake(Vault, pending[r].user, pending[r].amount, i, v)
  \/ \E i \in TxIds : CommitStake(i)
  \/ \E i \in TxIds : RollbackStake(i)
  \/ \E i \in TxIds :
        /\ \A j \in TxIds : pending_txs[j] = NoTx
        /\ CommitTx(CrossStaking, i)
  \/ \E i \in TxIds :
        /\ \A j \in TxIds : pending_txs[j] = NoTx
        /\ RollbackTx(CrossStaking, i)

SpecForward == Init /\ [][NextForward]_vars

\* One account and a destination whose answer to the max_slash query is not
\* the same every time
ReportedMaxSlash == {RemoteMaxSlashPercent, LocalMaxSlashPercent}

NextLien ==
  \/ \E a \in Amounts : Bond(PairUser, a)
  \/ \E a \in Amounts : StakeLocal(PairUser, a)
  \/ \E a \in Amounts, sl \in ReportedMaxSlash :
        StakeRemoteWith(PairUser, CrossStaking, sl, a)
  \/ \E i \in TxIds : CommitTx(CrossStaking, i)
  \/ \E i \in TxIds : RollbackTx(CrossStaking, i)
  \/ \E s \in Lienholders, a \in Amounts : ReleaseCrossStake(s, PairUser, a)
  \/ \E s \in Lienholders, a \in Amounts : ReleaseLocalStake(s, PairUser, a)

SpecLien == Init /\ [][NextLien]_vars

\* The vault and the external-staking contract with the messages between
\* them: the account's stake_remote is delivered as receive_virtual_stake
\* with the sender, the amount and the id of the vault's row, and the vault's
\* row is resolved after the destination resolved its own, the same way
NextMirror ==
  \/ \E a \in Amounts : Bond(PairUser, a)
  \/ \E a \in Amounts : StakeRemote(PairUser, CrossStaking, a)
  \/ \E i \in TxIds :
        /\ pending[i] # NoTx
        /\ pending_txs[i] = NoTx
        /\ last = Call("stake_remote", "ok", 0)
        /\ i = tx_count
        /\ es_last.op \notin {"receive_virtual_stake", "commit_stake", "rollback_stake"}
        /\ ReceiveVirtualStake(Vault, pending[i].user, pending[i].amount, i,
                               PairValidator)
  \/ \E i \in TxIds : pending[i] # NoTx /\ CommitStake(i)
  \/ \E i \in TxIds : pending[i] # NoTx /\ RollbackStake(i)
  \/ \E i \in TxIds :
        /\ es_last = Call("commit_stake", "ok", 0)
        /\ pending_txs[i] = NoTx
        /\ CommitTx(CrossStaking, i)
  \/ \E i \in TxIds :
        /\ es_last = Call("rollback_stake", "ok", 0)
        /\ pending_txs[i] = NoTx
        /\ RollbackTx(CrossStaking, i)
  \/ \E a \in Amounts : EsUnstake(PairUser, PairValidator, a)
  \/ WithdrawUnbonded(PairUser)
  \/ Tick

SpecMirror == Init /\ [][NextMirror]_vars

\* The two contracts together for one user and one validator: the vault is
\* called by the user and by the external-staking contract, the
\* external-staking contract by the vault and by the user.
NextPair ==
  \/ \E a \in Amounts : Bond(PairUser, a)
  \/ \E a \in Amounts : StakeRemote(PairUser, CrossStaking, a)
  \/ \E i \in TxIds : CommitTx(CrossStaking, i)
  \/ \E i \in TxIds : RollbackTx(CrossStaking, i)
  \/ \E a \in Amounts, i \in TxIds :
        ReceiveVirtualStake(Vault, PairUser, a, i, PairValidator)
  \/ \E i \in TxIds : CommitStake(i)
  \/ \E i \in TxIds : RollbackStake(i)
  \/ \E a \in Amounts : EsUnstake(PairUser, PairValidator, a)
  \/ WithdrawUnbonded(PairUser)
  \/ Tick

SpecPair == Init /\ [][NextPair]_vars

\* ------------------------------------------- mesh_sync::ValueRange<Uint128>
\* (packages/sync/src/range.rs).  A range is [lo |-> self.0, hi |-> self.1].
\* Each operation is a function from the range and its arguments to the
\* outcome and the range afterwards.  The values are Uint128 as in the
\* contracts: a subtraction below zero panics ("Panic"), a failed
\* assert_valid_range panics ("AssertionFailed"), and a panic leaves the
\* stored range as it was.
NewRange(value) == [lo |-> value, hi |-> value]

ValidRange(r) == r.lo <= r.hi

RangeOk(r) == [res |-> "ok", range |-> r]
RangeErr(res, r) == [res |-> res, range |-> r]

Asserted(old, new) ==
  IF ValidRange(new) THEN RangeOk(new) ELSE RangeErr("AssertionFailed", old)

PrepareAdd_Lo(r, value) == RangeOk([r EXCEPT !.lo = @ + value])

PrepareAdd(r, value) == RangeOk([r EXCEPT !.hi = @ + value])

PrepareAddMax(r, value, max) ==
  IF r.hi + value > max
  THEN RangeErr("Overflow", r)
  ELSE RangeOk([r EXCEPT !.hi = @ + value])

RollbackAdd_Lo(r, value) ==
  IF r.lo < value
  THEN RangeErr("Panic", r)
  ELSE Asserted(r, [r EXCEPT !.lo = @ - value])

RollbackAdd(r, value) ==
  IF r.hi < value
  THEN RangeErr("Panic", r)
  ELSE Asserted(r, [r EXCEPT !.hi = @ - value])

CommitAdd(r, value) == Asserted(r, [r EXCEPT !.lo = @ + value])

PrepareSub_Le(r, value) ==
  IF r.lo <= value
  THEN RangeErr("Underflow", r)
  ELSE RangeOk([r EXCEPT !.lo = @ - value])

PrepareSub(r, value) ==
  IF r.lo < value
  THEN RangeErr("Underflow", r)
  ELSE RangeOk([r EXCEPT !.lo = @ - value])

\* min is an Option: {} is None and {m} is Some(m).  Without a minimum
\* nothing is enforced and the subtraction itself is what fails
PrepareSubMin(r, value, min) ==
  IF \E m \in min : r.lo < m + value
  THEN RangeErr("Underflow", r)
  ELSE IF r.lo < value
       THEN RangeErr("Panic", r)
       ELSE RangeOk([r EXCEPT !.lo = @ - value])

RollbackSub(r, value) == Asserted(r, [r EXCEPT !.lo = @ + value])

CommitSub_Lo(r, value) ==
  IF r.lo < value
  THEN RangeErr("Panic", r)
  ELSE Asserted(r, [r EXCEPT !.lo = @ - value])

CommitSub(r, value) ==
  IF r.hi < value
  THEN RangeErr("Panic", r)
  ELSE Asserted(r, [r EXCEPT !.hi = @ - value])

\* -- a client of one range.  adds and subs count, per value, the prepared
\* operations that are neither committed nor rolled back; a commit or
\* rollback is only ever called for one of those.  vr_base is the initial
\* value plus the committed additions minus the committed subtractions.
\* vr_pre is the range before the most recent successful prepare_add or
\* prepare_sub, kept while the very next call rolls that operation back.
InFlight(bag) == \E v \in RangeVals : bag[v] > 0

RECURSIVE BagSum(_, _)
BagSum(bag, vs) ==
  IF vs = {} THEN 0
  ELSE LET v == CHOOSE x \in vs : TRUE
       IN v * bag[v] + BagSum(bag, vs \ {v})

VrCall(op, out) ==
  /\ range' = out.range
  /\ vr_last' = [op |-> op, res |-> out.res]

VrSnap(kind, value) ==
  [range |-> range, kind |-> kind, value |-> value, open |-> TRUE]

\* the snapshot after a rollback: closed if the rollback undoes the
\* operation the snapshot was taken for, dropped otherwise
VrClose(kind, value) ==
  IF vr_pre # NoSnap /\ vr_pre.open /\ vr_pre.kind = kind /\ vr_pre.value = value
  THEN [vr_pre EXCEPT !.open = FALSE]
  ELSE NoSnap

RangeNew(value) ==
  /\ range = NoRange
  /\ range' = NewRange(value)
  /\ vr_base' = value
  /\ vr_last' = [op |-> "new", res |-> "ok"]
  /\ UNCHANGED <<adds, subs, vr_pre, vault, es>>

CallPrepareAdd(value) ==
  /\ range # NoRange
  /\ range.hi + value <= MaxRange
  /\ LET out == PrepareAdd(range, value)
     IN /\ VrCall("prepare_add", out)
        /\ adds' = [adds EXCEPT ![value] = @ + 1]
        /\ vr_pre' = VrSnap("add", value)
  /\ UNCHANGED <<subs, vr_base, vault, es>>

CallPrepareAddMax(value, max) ==
  /\ range # NoRange
  /\ LET out == PrepareAddMax(range, value, max)
     IN /\ VrCall("prepare_add_max", out)
        /\ adds' = IF out.res = "ok" THEN [adds EXCEPT ![value] = @ + 1] ELSE adds
  /\ vr_pre' = NoSnap
  /\ UNCHANGED <<subs, vr_base, vault, es>>

CallPrepareSub(value) ==
  /\ range # NoRange
  /\ LET out == PrepareSub(range, value)
     IN /\ VrCall("prepare_sub", out)
        /\ subs' = IF out.res = "ok" THEN [subs EXCEPT ![value] = @ + 1] ELSE subs
        /\ vr_pre' = IF out.res = "ok" THEN VrSnap("sub", value) ELSE NoSnap
  /\ UNCHANGED <<adds, vr_base, vault, es>>

CallPrepareSubMin(value, min) ==
  /\ range # NoRange
  /\ LET out == PrepareSubMin(range, value, min)
     IN /\ VrCall("prepare_sub_min", out)
        /\ subs' = IF out.res = "ok" THEN [subs EXCEPT ![value] = @ + 1] ELSE subs
  /\ vr_pre' = NoSnap
  /\ UNCHANGED <<adds, vr_base, vault, es>>

CallCommitAdd(value) ==
  /\ range # NoRange
  /\ adds[value] > 0
  /\ LET out == CommitAdd(range, value)
     IN /\ VrCall("commit_add", out)
        /\ adds' = IF out.res = "ok" THEN [adds EXCEPT ![value] = @ - 1] ELSE adds
        /\ vr_base' = IF out.res = "ok" THEN vr_base + value ELSE vr_base
  /\ vr_pre' = NoSnap
  /\ UNCHANGED <<subs, vault, es>>

CallRollbackAdd(value) ==
  /\ range # NoRange
  /\ adds[value] > 0
  /\ LET out == RollbackAdd(range, value)
     IN /\ VrCall("rollback_add", out)
        /\ adds' = IF out.res = "ok" THEN [adds EXCEPT ![value] = @ - 1] ELSE adds
  /\ vr_pre' = VrClose("add", value)
  /\ UNCHANGED <<subs, vr_base, vault, es>>

CallCommitSub(value) ==
  /\ range # NoRange
  /\ subs[value] > 0
  /\ LET out == CommitSub(range, value)
     IN /\ VrCall("commit_sub", out)
        /\ subs' = IF out.res = "ok" THEN [subs EXCEPT ![value] = @ - 1] ELSE subs
        /\ vr_base' = IF out.res = "ok" THEN vr_base - value ELSE vr_base
  /\ vr_pre' = NoSnap
  /\ UNCHANGED <<adds, vault, es>>

CallRollbackSub(value) ==
  /\ range # NoRange
  /\ subs[value] > 0
  /\ LET out == RollbackSub(range, value)
     IN /\ VrCall("rollback_sub", out)
        /\ subs' = IF out.res = "ok" THEN [subs EXCEPT ![value] = @ - 1] ELSE subs
  /\ vr_pre' = VrClose("sub", value)
  /\ UNCHANGED <<adds, vr_base, vault, es>>

NextRange ==
  \/ \E v \in RangeCaps : RangeNew(v)
  \/ \E v \in RangeVals : CallPrepareAdd(v)
  \/ \E v \in RangeVals, max \in RangeCaps : CallPrepareAddMax(v, max)
  \/ \E v \in RangeVals : CallPrepareSub(v)
  \/ \E v \in RangeVals, min \in {{}} \cup {{m} : m \in RangeCaps} :
        CallPrepareSubMin(v, min)
  \/ \E v \in RangeVals : CallCommitAdd(v)
  \/ \E v \in RangeVals : CallRollbackAdd(v)
  \/ \E v \in RangeVals : CallCommitSub(v)
  \/ \E v \in RangeVals : CallRollbackSub(v)

\* one ValueRange and its client
SpecRange == Init /\ [][NextRange]_vars

\* ===================================================================== claims
\* what the rows of the journal add to the stored figures
PendingRows == {i \in TxIds : pending[i] # NoTx}

PendingIds(u) == {i \in PendingRows : pending[i].user = u /\ pending[i].ty = "Stake"}

PendingOn(u, lh) == SumTxs(pending, {i \in PendingIds(u) : pending[i].lienholder = lh})

RECURSIVE SumSlashable(_, _)
SumSlashable(pend, ids) ==
  IF ids = {} THEN 0
  ELSE LET i == CHOOSE x \in ids : TRUE
       IN MulDecimal(pend[i].amount, pend[i].slashable) + SumSlashable(pend, ids \ {i})

MaxOf(S) == CHOOSE m \in S : \A x \in S : x <= m

CollateralOf(u) == MayLoadUser(users, u).collateral

\* max_lien.hi: the largest lien once every pending Stake tx has committed
MaxLienHi(u) ==
  MaxOf({MayLoadUser(users, u).max_lien}
        \cup {MayLoadLien(liens, u, lh, 0).amount + PendingOn(u, lh) : lh \in Lienholders})

\* total_slashable.hi: the slashable total once every pending Stake tx has committed
TotalSlashableHi(u) ==
  MayLoadUser(users, u).total_slashable + SumSlashable(pending, PendingIds(u))

UsedHi(u) == Max(MaxLienHi(u), TotalSlashableHi(u))

CollateralRule == \A u \in Users : UsedHi(u) <= CollateralOf(u)

\* the user's local-staking lien equals the whole, non-zero collateral
LocalLienFull(u) ==
  /\ CollateralOf(u) > 0
  /\ MayLoadLien(liens, u, LocalStaking, 0).amount = CollateralOf(u)

\* C1: in every reachable state and for every user, the larger of max_lien
\* and total_slashable, each counting the user's pending Stake txs as
\* committed, is at most the user's collateral.
C1_CollateralRule == CollateralRule

\* C2: a commit_tx never fails with InsufficentBalance, and after a commit_tx
\* that succeeded the collateral rule holds.
C2_AcceptedStakeCommits ==
  last.op = "commit_tx" =>
    /\ last.res # "InsufficentBalance"
    /\ last.res = "ok" => CollateralRule

\* C3: unbond(amount) succeeds exactly when amount is at most the collateral
\* less the used collateral counted with the pending Stake txs; otherwise it
\* fails with ClaimsLocked of that free collateral and the store is unchanged.
C3_UnbondWithinFree ==
  [][\A s \in Users, a \in Amounts :
       (last'.op = "unbond" /\ Unbond(s, a)) =>
         IF a <= CollateralOf(s) - UsedHi(s)
         THEN /\ last'.res = "ok"
              /\ users'[s].collateral = CollateralOf(s) - a
         ELSE /\ last' = Call("unbond", "ClaimsLocked", CollateralOf(s) - UsedHi(s))
              /\ UNCHANGED store]_vars

\* C4: stake_remote(d, a) fails with InsufficentBalance and leaves the store
\* unchanged whenever the stake committed on d, plus the user's pending
\* stakes, plus a exceeds the user's collateral.
C4_StakeRemoteOverLien ==
  [][\A s \in Users, d \in Destinations, a \in Amounts :
       (/\ acked[<<s, d>>] + PendingStakeSum(pending, s) + a > CollateralOf(s)
        /\ last'.op = "stake_remote"
        /\ StakeRemote(s, d, a))
       => /\ last'.res = "InsufficentBalance"
          /\ UNCHANGED store]_vars

\* C5 as stated: with the local-staking lien equal to the whole collateral,
\* stake_remote of any amount fails with InsufficentBalance and opens no tx.
C5_FullLocalLienBlocksRemote ==
  [][\A s \in Users, d \in Destinations, a \in Amounts :
       (LocalLienFull(s) /\ last'.op = "stake_remote" /\ StakeRemote(s, d, a))
       => /\ last'.res = "InsufficentBalance"
          /\ pending' = pending]_vars

\* C5 amended: with the local-staking lien equal to the whole collateral,
\* stake_remote(d, a) is accepted and opens one tx exactly when a plus the
\* user's pending stakes is at most the collateral and the total slashable
\* with the slashable part of that sum is at most the collateral; otherwise
\* it fails with InsufficentBalance and the store is unchanged.
C5_RemoteSharesCollateral ==
  [][\A s \in Users, d \in Destinations, a \in Amounts :
       (LocalLienFull(s) /\ last'.op = "stake_remote" /\ StakeRemote(s, d, a))
       => LET sum == a + PendingStakeSum(pending, s) IN
          IF /\ sum <= CollateralOf(s)
             /\ users[s].total_slashable + MulDecimal(sum, MaxSlash(d)) <= CollateralOf(s)
          THEN /\ last'.res = "ok"
               /\ PendingRows' = PendingRows \cup {tx_count'}
               /\ tx_count' \notin PendingRows
               /\ pending'[tx_count'].amount = a
          ELSE /\ last'.res = "InsufficentBalance"
               /\ UNCHANGED store]_vars

\* a stake_remote was accepted from a user whose local lien is the whole collateral
C5_Witness ==
  /\ last = Call("stake_remote", "ok", 0)
  /\ LocalLienFull(pending[tx_count].user)

C7_OnlyLienholderResolves ==
  [][\A s \in Addrs, i \in TxIds :
       (/\ pending[i] # NoTx
        /\ s # pending[i].lienholder
        /\ last'.op \in {"commit_tx", "rollback_tx"}
        /\ CommitTx(s, i) \/ RollbackTx(s, i))
       => /\ last'.res = "WrongContractTx"
          /\ UNCHANGED store]_vars

\* a resolution by the wrong caller was refused while a tx is pending
C7_Witness ==
  /\ last.res = "WrongContractTx"
  /\ PendingRows # {}

\* C8: in the vault and in external-staking, a commit or rollback naming an
\* id with no pending row fails and changes no state; one that succeeds
\* removes one row that was pending and one that fails removes none, so no
\* id is resolved twice.
C8_ResolvedAtMostOnce ==
  [][/\ \A i \in TxIds :
          /\ (pending[i] = NoTx /\ last'.op \in {"commit_tx", "rollback_tx"})
             => \A s \in Addrs :
                  (CommitTx(s, i) \/ RollbackTx(s, i))
                  => last'.res = "NotFound" /\ UNCHANGED store
          /\ (pending_txs[i] = NoTx /\ es_last'.op \in {"commit_stake", "rollback_stake"})
             => ((CommitStake(i) \/ RollbackStake(i))
                 => es_last'.res = "NotFound" /\ UNCHANGED es_store)
     /\ last'.op \in {"commit_tx", "rollback_tx"}
        => IF last'.res = "ok"
           THEN \E i \in PendingRows : pending' = [pending EXCEPT ![i] = NoTx]
           ELSE UNCHANGED store
     /\ es_last'.op \in {"commit_stake", "rollback_stake"}
        => IF es_last'.res = "ok"
           THEN \E i \in TxIds : /\ pending_txs[i] # NoTx
                                  /\ pending_txs' = [pending_txs EXCEPT ![i] = NoTx]
           ELSE UNCHANGED es_store]_vars

\* external-staking refused a rollback when every tx was resolved, one of
\* them by a commit
C8_Witness ==
  /\ es_last = Call("rollback_stake", "NotFound", 0)
  /\ \A i \in TxIds : pending_txs[i] = NoTx
  /\ \E k \in Users \X Validators : stakes[k] # NoStake /\ stakes[k].stake > 0

\* C9: tx_count never decreases; a row appears only under the id tx_count + 1,
\* which no row holds; a pending row is never overwritten; an accepted
\* stake_remote advances tx_count by one, and a failed one and every other
\* call leave it.
C9_TxIdsUniqueIncreasing ==
  [][/\ tx_count' >= tx_count
     /\ \A i \in TxIds :
          /\ (pending[i] = NoTx /\ pending'[i] # NoTx) => (i = tx_count' /\ i > tx_count)
          /\ (pending[i] # NoTx /\ pending'[i] # NoTx) => pending'[i] = pending[i]
          /\ pending[i] # NoTx => i <= tx_count
     /\ last'.op = "stake_remote"
        => IF last'.res = "ok"
           THEN /\ tx_count' = tx_count + 1
                /\ pending'[tx_count'] # NoTx
           ELSE tx_count' = tx_count
     /\ last'.op # "stake_remote" => tx_count' = tx_count]_vars

\* the second tx is pending under id 2 after the first was resolved
C9_Witness ==
  /\ tx_count = 2
  /\ pending[1] = NoTx
  /\ pending[2] # NoTx

\* C10: an accepted stake_remote adds exactly one pending row, a successful
\* commit_tx or rollback_tx removes exactly one, and no other step changes
\* the number of rows.
C10_RowCount ==
  [][LET n == Cardinality(PendingRows)
         m == Cardinality(PendingRows')
     IN
     IF last'.res = "ok" /\ last'.op = "stake_remote" THEN m = n + 1
     ELSE IF last'.res = "ok" /\ last'.op \in {"commit_tx", "rollback_tx"} THEN m = n - 1
     ELSE m = n]_vars

\* two stakes were accepted, one of them committed, and one row is left
C10_Witness ==
  /\ last = Call("commit_tx", "ok", 0)
  /\ tx_count = 2
  /\ Cardinality(PendingRows) = 1

\* C11: while a stake tx on a (destination, validator) is pending, a further
\* stake_remote to the same destination and validator, by the same or
\* another user, is accepted on both sides: the vault refuses it only for
\* lack of collateral, receive_virtual_stake does not fail, and each call
\* adds a journal row of its own and leaves the rows already pending alone.
C11_ConcurrentStakeAccepted ==
  [][/\ \A s \in Users, d \in Destinations, a \in Amounts :
          (/\ last'.op = "stake_remote"
           /\ StakeRemote(s, d, a)
           /\ \E j \in TxIds : pending[j] # NoTx /\ pending[j].lienholder = d)
          => /\ last'.res \in {"ok", "InsufficentBalance"}
             /\ last'.res = "ok"
                  => /\ pending[tx_count'] = NoTx
                     /\ pending'[tx_count'] # NoTx
                     /\ \A j \in TxIds \ {tx_count'} : pending'[j] = pending[j]
     /\ \A o \in Users, a \in Amounts, i \in TxIds, v \in Validators :
          (/\ es_last'.op = "receive_virtual_stake"
           /\ ReceiveVirtualStake(Vault, o, a, i, v)
           /\ pending_txs[i] = NoTx
           /\ \E j \in TxIds : pending_txs[j] # NoTx /\ pending_txs[j].validator = v)
          => /\ es_last'.res = "ok"
             /\ pending_txs'[i] = EsNewTx(i, o, v, a)
             /\ \A j \in TxIds \ {i} : pending_txs'[j] = pending_txs[j]]_vars

\* ------------------------------------------------------ ValueRange claims
VrResolutions == {"commit_add", "rollback_add", "commit_sub", "rollback_sub"}

\* C12: after any sequence of prepare_add, prepare_add_max, prepare_sub,
\* prepare_sub_min and the commits and rollbacks of operations prepared
\* before, the range has lo <= hi, and no call ended in a failed
\* assert_valid_range.
C12_RangeStaysValid ==
  range # NoRange => ValidRange(range) /\ vr_last.res # "AssertionFailed"

\* additions and subtractions are in flight together and one was committed
C12_Witness ==
  /\ range # NoRange
  /\ InFlight(adds) /\ InFlight(subs)
  /\ vr_last = [op |-> "commit_add", res |-> "ok"]
  /\ range.lo < range.hi

\* C13: in whatever order the prepared operations are committed or rolled
\* back, every resolution succeeds, the range is the resolved value minus the
\* subtractions in flight up to the resolved value plus the additions in
\* flight (so lo <= hi at each step), and once nothing is in flight
\* lo = hi = initial value + committed additions - committed subtractions.
C13_OrderIndependent ==
  range # NoRange =>
    /\ vr_last.op \in VrResolutions => vr_last.res = "ok"
    /\ range.lo = vr_base - BagSum(subs, RangeVals)
    /\ range.hi = vr_base + BagSum(adds, RangeVals)
    /\ range.lo <= range.hi
    /\ (~InFlight(adds) /\ ~InFlight(subs))
          => range.lo = vr_base /\ range.hi = vr_base

\* everything resolved, the last resolution being a committed subtraction
C13_Witness ==
  /\ range # NoRange
  /\ ~InFlight(adds) /\ ~InFlight(subs)
  /\ vr_last = [op |-> "commit_sub", res |-> "ok"]
  /\ range = NewRange(vr_base)
  /\ vr_base > 0

\* C14: prepare_add(v) directly followed by rollback_add(v), and a successful
\* prepare_sub(v) directly followed by rollback_sub(v), leave the range equal
\* to what it was before the prepare, whatever else is in flight.
C14_RollbackUndoesPrepare ==
  (vr_pre # NoSnap /\ ~vr_pre.open) =>
    /\ vr_last.op = (IF vr_pre.kind = "add" THEN "rollback_add" ELSE "rollback_sub")
    /\ vr_last.res = "ok"
    /\ range = vr_pre.range

\* a subtraction prepared and rolled back while an addition is in flight
C14_Witness ==
  /\ vr_pre # NoSnap
  /\ ~vr_pre.open
  /\ vr_pre.kind = "sub"
  /\ InFlight(adds)
  /\ vr_last = [op |-> "rollback_sub", res |-> "ok"]

\* C15: prepare_add_max(v, cap) fails with Overflow exactly when hi + v > cap,
\* prepare_sub(v) fails with Underflow exactly when lo < v, and
\* prepare_sub_min(v, min) fails with Underflow exactly when lo < min + v;
\* otherwise they succeed, and a failed call leaves lo and hi as they were.
C15_PrepareFailures ==
  [][/\ \A v \in RangeVals, cap \in RangeCaps :
          (vr_last'.op = "prepare_add_max" /\ CallPrepareAddMax(v, cap))
          => /\ vr_last'.res = (IF range.hi + v > cap THEN "Overflow" ELSE "ok")
             /\ (vr_last'.res # "ok" => range' = range)
     /\ \A v \in RangeVals :
          (vr_last'.op = "prepare_sub" /\ CallPrepareSub(v))
          => /\ vr_last'.res = (IF range.lo < v THEN "Underflow" ELSE "ok")
             /\ (vr_last'.res # "ok" => range' = range)
     /\ \A v \in RangeVals, min \in RangeCaps :
          (vr_last'.op = "prepare_sub_min" /\ CallPrepareSubMin(v, {min}))
          => /\ vr_last'.res = (IF range.lo < min + v THEN "Underflow" ELSE "ok")
             /\ (vr_last'.res # "ok" => range' = range)]_vars

\* a subtraction refused although the lower bound is positive
C15_Witness ==
  /\ range # NoRange
  /\ vr_last \in {[op |-> o, res |-> "Underflow"] : o \in {"prepare_sub", "prepare_sub_min"}}
  /\ range.lo > 0
  /\ InFlight(adds)

\* -------------------------------------------------- unstake and unbonding
\* the pending unbonds of a user on a validator
UnbondsOf(u, v) ==
  IF stakes[<<u, v>>] = NoStake THEN <<>> ELSE stakes[<<u, v>>].pending_unbonds

Entries(unbonds) == {unbonds[n] : n \in 1..Len(unbonds)}

HasMatured(u) ==
  \E v \in Validators : \E e \in Entries(UnbondsOf(u, v)) : e.release_at <= now

AllMatured(u) ==
  \A v \in Validators : \A e \in Entries(UnbondsOf(u, v)) : e.release_at <= now

NoneMatured(u) ==
  \A v \in Validators : \A e \in Entries(UnbondsOf(u, v)) : now < e.release_at

RECURSIVE SumOver(_, _)
SumOver(f, S) ==
  IF S = {} THEN 0
  ELSE LET x == CHOOSE y \in S : TRUE IN f[x] + SumOver(f, S \ {x})

TotalUnbonding(u) == SumOver([v \in Validators |-> SumUnbonds(UnbondsOf(u, v))], Validators)

TotalStaked(u) ==
  SumOver([v \in Validators |-> MayLoadStake(stakes, u, v).stake], Validators)

LienAmount(u, lh) == IF liens[<<u, lh>>] = NoLien THEN 0 ELSE liens[<<u, lh>>].amount

\* everything the user staked on the destination was committed on both
\* sides and unstaked again, and the unbonding period has passed
TripReady(u) ==
  /\ PendingRows = {}
  /\ \A i \in TxIds : pending_txs[i] = NoTx
  /\ acked[<<u, CrossStaking>>] > 0
  /\ TotalStaked(u) = 0
  /\ TotalUnbonding(u) = acked[<<u, CrossStaking>>]
  /\ AllMatured(u)

\* C16: stake_remote, commit on both sides, unstake of the same amount, and
\* after the unbonding period withdraw_unbonded: the withdrawal succeeds,
\* leaves no pending unbond and no pending tx, and the user's collateral is
\* what was bonded, with max_lien, total_slashable and the (user,
\* destination) lien back at zero, so that all collateral is free again.
C16_RoundTripRestores ==
  [][\A u \in Users :
        (/\ es_last'.op = "withdraw_unbonded"
         /\ WithdrawUnbonded(u)
         /\ TripReady(u))
        => /\ es_last'.res = "ok"
           /\ \A v \in Validators : UnbondsOf(u, v)' = <<>>
           /\ PendingRows' = {}
           /\ users'[u] = [collateral |-> CollateralOf(u),
                           max_lien |-> 0, total_slashable |-> 0]
           /\ LienAmount(u, CrossStaking)' = 0]_vars

C18_ReleasesMaturedOnce ==
  [][\A u \in Users :
        (/\ es_last'.op = "withdraw_unbonded"
         /\ WithdrawUnbonded(u)
         /\ HasMatured(u))
        => /\ es_last'.res = "ok"
           /\ es_last'.info =
                SumOver([v \in Validators |-> ReleasedAmount(UnbondsOf(u, v), now)],
                        Validators)
           /\ \A v \in Validators :
                UnbondsOf(u, v)' = KeptUnbonds(UnbondsOf(u, v), now)]_vars

\* C19: release_cross_stake and release_local_stake by caller c for owner o
\* and amount a fail with UnknownLienholder when there is no (o, c) lien and
\* with InsufficientLien when a exceeds it, changing nothing; otherwise they
\* succeed, lower the (o, c) lien by a and no other lien, set o's max_lien
\* to the maximum of o's liens, leave the collateral alone, and the free
\* collateral is the collateral minus the larger of max_lien and
\* total_slashable.
C19_ReleaseLowersOneLien ==
  [][\A op \in {"release_cross_stake", "release_local_stake"},
        c \in Lienholders, o \in Users, a \in UnitAmounts \cup Amounts :
        (last'.op = op /\ Unstake(op, c, o, a))
        => IF liens[<<o, c>>] = NoLien
           THEN last'.res = "UnknownLienholder" /\ UNCHANGED store
           ELSE IF a > liens[<<o, c>>].amount
           THEN last'.res = "InsufficientLien" /\ UNCHANGED store
           ELSE /\ last'.res = "ok"
                /\ liens' = [liens EXCEPT ![<<o, c>>].amount = @ - a]
                /\ users'[o].max_lien =
                     MaxOf({LienAmount(o, lh)' : lh \in Lienholders})
                /\ users'[o].collateral = users[o].collateral
                /\ \A u \in Addrs \ {o} : users'[u] = users[u]
                /\ FreeCollateral(users'[o]) =
                     users'[o].collateral
                       - Max(users'[o].max_lien, users'[o].total_slashable)
                /\ FreeCollateral(users'[o]) >= FreeCollateral(users[o])]_vars

\* C20: unstake(validator, amount) succeeds exactly when amount is at most
\* the caller's stake on the validator; a failure is NotEnoughStake(current
\* stake) and changes nothing; a success lowers the stake and the
\* validator's total_stake by amount and appends one
\* PendingUnbond{amount, now + unbonding_period} at the tail.
C20_UnstakeWithinStake ==
  [][\A s \in Users, v \in Validators, a \in Amounts :
        (es_last'.op = "unstake" /\ EsUnstake(s, v, a))
        => LET stake == MayLoadStake(stakes, s, v) IN
           IF a <= stake.stake
           THEN /\ es_last'.res = "ok"
                /\ stakes'[<<s, v>>].stake = stake.stake - a
                /\ distribution'[v].total_stake = distribution[v].total_stake - a
                /\ stakes'[<<s, v>>].pending_unbonds =
                     Append(stake.pending_unbonds,
                            [amount |-> a, release_at |-> now + UnbondingPeriod])
           ELSE /\ es_last' = Call("unstake", "NotEnoughStake", stake.stake)
                /\ UNCHANGED es_store]_vars

\* ---------------------------------------------------------------- rewards
\* what pending_rewards reports for a user on a validator
PendingReward(u, v) ==
  CalculateReward(MayLoadStake(stakes, u, v), MayLoadDistribution(distribution, v)).amount

StakeOn(u, v) == MayLoadStake(stakes, u, v).stake

TotalStakeOf(v) == MayLoadDistribution(distribution, v).total_stake

Abs(x) == IF x < 0 THEN -x ELSE x

\* C21: distribute_rewards for a validator whose total_stake is zero fails
\* with an error of the contract, not with a panic, and leaves the
\* distribution and every stake as they were.
C21_ZeroStakeRejected ==
  [][\A v \in Validators, r \in 1..MaxRewards :
        (/\ es_last'.op = "distribute_rewards"
         /\ DistributeRewards(v, r)
         /\ TotalStakeOf(v) = 0)
        => /\ es_last'.res \notin {"ok", "Panic"}
           /\ UNCHANGED es_store]_vars

C23_PageWithinLimit ==
  page # NoPage =>
    LET given == IF page.limit = {} THEN 10 ELSE CHOOSE l \in page.limit : TRUE
        most == IF given < 1 THEN 1 ELSE IF given > 30 THEN 30 ELSE given
        rows == {i \in TxIds : /\ pending_txs[i] # NoTx
                               /\ \A b \in page.start_after : i < b}
    IN es_last.op = "all_pending_txs"
       => /\ Len(page.txs) <= most
          /\ \A n \in 1..Len(page.txs) :
               /\ page.txs[n] \in rows
               /\ \A b \in page.start_after : page.txs[n] # b
               /\ \A k \in 1..(n - 1) : page.txs[k] > page.txs[n]
          /\ Len(page.txs) = (IF Cardinality(rows) <= most
                              THEN Cardinality(rows) ELSE most)

\* --------------------------------------------------------------- slashing
\* the stake of u on v and the slash it calls for
SlashOf(u, v) == SlashAmount(StakeOn(u, v))

C26_CommitRaisesUsersLien ==
  [][\A s \in Addrs, i \in TxIds, u \in Addrs, lh \in Lienholders :
       (/\ last'.op = "commit_tx"
        /\ last'.res = "ok"
        /\ CommitTx(s, i)
        /\ u = pending[i].user
        /\ lh = pending[i].lienholder)
       => /\ LienAmount(u, lh)' = LienAmount(u, lh) + pending[i].amount
          /\ users'[u] # NoUser
          /\ users'[u].max_lien >= LienAmount(u, lh)'
          /\ users'[u].total_slashable
               = MayLoadUser(users, u).total_slashable
                 + MulDecimal(pending[i].amount, liens'[<<u, lh>>].slashable)
          /\ pending'[i] = NoTx]_vars

\* C27: the destination receives the id of the row stake_remote persisted:
\* every stake tx pending in the external-staking contract has the id, the
\* user and the amount of a row pending in the vault.
C27_ForwardedTxId ==
  \A i \in TxIds :
    (pending_txs[i] # NoTx /\ pending_txs[i].ty = "InFlightRemoteStaking")
    => /\ pending[i] # NoTx
       /\ pending[i].ty = "Stake"
       /\ pending[i].user = pending_txs[i].user
       /\ pending[i].amount = pending_txs[i].amount

\* the slashable part of the liens on u, each taken on the lien's amount
SlashableOfLiens(u) ==
  SumOver([lh \in Lienholders |->
             IF liens[<<u, lh>>] = NoLien THEN 0
             ELSE MulDecimal(liens[<<u, lh>>].amount, liens[<<u, lh>>].slashable)],
          Lienholders)

\* C28: in every reachable state the max_lien of a user is the largest of
\* the user's liens and the total_slashable of the user is the sum, over the
\* user's liens, of the lien's amount times its slashable fraction.
C28_AggregatesMatchLiens ==
  \A u \in Users :
    users[u] # NoUser
    => /\ users[u].max_lien = MaxOf({LienAmount(u, lh) : lh \in Lienholders})
       /\ users[u].total_slashable = SlashableOfLiens(u)

\* collateral less the larger of max_lien and total_slashable, of the stored
\* record
FreeOf(us, u) == MayLoadUser(us, u).collateral - UsedCollateral(MayLoadUser(us, u))

\* C29: stake_local(amount) either fails with InsufficentBalance and leaves
\* the liens, the user records and the pending txs as they were, or succeeds
\* and at once raises the (sender, local staking) lien by amount, leaves the
\* other liens and the collateral alone, does not raise the free collateral,
\* which stays at least zero with max_lien at least the lien, and opens no
\* tx.
C29_StakeLocalSynchronous ==
  [][\A s \in Users, a \in Amounts :
       (last'.op = "stake_local" /\ StakeLocal(s, a))
       => \/ /\ last'.res = "InsufficentBalance"
             /\ UNCHANGED store
          \/ /\ last'.res = "ok"
             /\ LienAmount(s, LocalStaking)' = LienAmount(s, LocalStaking) + a
             /\ \A k \in DOMAIN liens :
                  k # <<s, LocalStaking>> => liens'[k] = liens[k]
             /\ \A u \in Addrs \ {s} : users'[u] = users[u]
             /\ users'[s].collateral = CollateralOf(s)
             /\ users'[s].max_lien >= LienAmount(s, LocalStaking)'
             /\ FreeOf(users', s) <= FreeOf(users, s)
             /\ FreeOf(users', s) >= 0
             /\ UNCHANGED <<pending, tx_count>>]_vars

\* a stake_local went through while a tx of the same user was pending
C29_Witness ==
  /\ last = Call("stake_local", "ok", 0)
  /\ \E u \in Users :
       /\ LienAmount(u, LocalStaking) > 0
       /\ PendingIds(u) # {}

\* C30: a lien row, once created, is kept, also when its amount falls to
\* zero, and no call changes its slashable fraction, whatever max_slash the
\* destination reports later.
C30_SlashableFixed ==
  [][\A k \in DOMAIN liens :
       liens[k] # NoLien
       => /\ liens'[k] # NoLien
          /\ liens'[k].slashable = liens[k].slashable]_vars

\* ------------------------------------------------- external-staking journal
\* the ids of the rows pending in the external-staking contract
EsPendingRows == {i \in TxIds : pending_txs[i] # NoTx}

\* C31: an unstake that succeeds opens exactly one pending tx, of kind
\* InFlightRemoteUnstaking, for the sender, the validator and the amount,
\* and leaves the other rows of the journal alone.
C31_UnstakeOpensTx ==
  [][\A s \in Users, v \in Validators, a \in Amounts :
       (es_last'.op = "unstake" /\ es_last'.res = "ok" /\ EsUnstake(s, v, a))
       => \E i \in TxIds :
            /\ pending_txs[i] = NoTx
            /\ pending_txs'[i] # NoTx
            /\ pending_txs'[i].ty = "InFlightRemoteUnstaking"
            /\ pending_txs'[i].user = s
            /\ pending_txs'[i].validator = v
            /\ pending_txs'[i].amount = a
            /\ \A j \in TxIds \ {i} : pending_txs'[j] = pending_txs[j]]_vars

\* C32: a rollback_stake that directly follows the receive_virtual_stake of
\* its tx succeeds and leaves the stake record of (owner, validator) and the
\* distribution record of the validator, locks included, as the
\* receive_virtual_stake found them, and the tx row is gone.
C32_RollbackRestoresStake ==
  [][\A i \in TxIds :
       (/\ es_last'.op = "rollback_stake"
        /\ es_pre # NoSnap
        /\ es_pre.id = i
        /\ RollbackStake(i))
       => /\ es_last'.res = "ok"
          /\ MayLoadStake(stakes', es_pre.user, es_pre.validator) = es_pre.stake
          /\ MayLoadDistribution(distribution', es_pre.validator)
               = es_pre.distribution
          /\ es_pre.stake.lock = "Unlocked"
          /\ es_pre.distribution.lock = "Unlocked"
          /\ pending_txs'[i] = NoTx]_vars

\* a stake tx was rolled back on a stake that had been committed and had
\* withdrawn rewards before, with points left over in the distribution
C32_Witness ==
  /\ es_last = Call("rollback_stake", "ok", 0)
  /\ \E u \in Users, v \in Validators :
       /\ stakes[<<u, v>>] # NoStake
       /\ stakes[<<u, v>>].stake > 0
       /\ stakes[<<u, v>>].withdrawn_funds > 0
       /\ stakes[<<u, v>>].lock = "Unlocked"
       /\ distribution[v].points_per_stake > 0
       /\ distribution[v].points_leftover > 0
       /\ distribution[v].lock = "Unlocked"

\* ---------------------------------------------------------- reward points
PointsPerStakeOf(v) == MayLoadDistribution(distribution, v).points_per_stake

PointsLeftoverOf(v) == MayLoadDistribution(distribution, v).points_leftover

\* C33: a distribute_rewards of amount that succeeds on a validator with
\* total_stake > 0 raises points_per_stake by P \div total_stake, where P is
\* amount times the scale plus the old leftover, and leaves the remainder of
\* that division as the leftover: 0 <= leftover < total_stake, and
\* points_per_stake * total_stake + leftover grows by amount times the scale.
C33_NoPointsLost ==
  [][\A v \in Validators, r \in 0..MaxRewards :
       (/\ es_last'.op = "distribute_rewards"
        /\ es_last'.res = "ok"
        /\ DistributeRewards(v, r))
       => LET P == r * DistributionPointsScale + PointsLeftoverOf(v)
              S == TotalStakeOf(v)
          IN /\ S > 0
             /\ TotalStakeOf(v)' = S
             /\ PointsPerStakeOf(v)' = PointsPerStakeOf(v) + (P \div S)
             /\ PointsLeftoverOf(v)' = P % S
             /\ PointsLeftoverOf(v)' >= 0
             /\ PointsLeftoverOf(v)' < S
             /\ PointsPerStakeOf(v)' * S + PointsLeftoverOf(v)'
                  = PointsPerStakeOf(v) * S + PointsLeftoverOf(v)
                    + r * DistributionPointsScale]_vars

\* a distribution carried a leftover into a distribution that left one too
C33_Witness ==
  /\ es_last = Call("distribute_rewards", "ok", 0)
  /\ distributed[PairValidator] >= 2
  /\ PointsLeftoverOf(PairValidator) > 0
  /\ PointsPerStakeOf(PairValidator) * TotalStakeOf(PairValidator)
       + PointsLeftoverOf(PairValidator)
     = distributed[PairValidator] * DistributionPointsScale

\* the points a stake has earned: points_per_stake * stake + points_alignment
PointsOf(u, v) ==
  Align(MayLoadStake(stakes, u, v).points_alignment,
        PointsPerStakeOf(v) * StakeOn(u, v))

C35_ReleaseNeverUnderflows ==
  [][\A op \in {"release_cross_stake", "release_local_stake"},
        c \in Lienholders, o \in Users, a \in UnitAmounts :
        (/\ last'.op = op
         /\ liens[<<o, c>>] # NoLien
         /\ a <= liens[<<o, c>>].amount
         /\ Unstake(op, c, o, a))
        => /\ users[o].total_slashable
                >= MulDecimal(a, liens[<<o, c>>].slashable)
           /\ last'.res = "ok"]_vars

\* ------------------------------------------------ the vault and its mirror
\* no tx is pending in the vault or in the external-staking contract
Settled ==
  \A i \in TxIds : pending[i] = NoTx /\ pending_txs[i] = NoTx

\* C36: what a user has staked or is unbonding on the validators of the
\* destination is, once every tx is resolved, at most the lien the vault
\* holds for the user and the destination, and the release_cross_stake of a
\* withdraw_unbonded fails neither with UnknownLienholder nor with
\* InsufficientLien.
C36_MirrorWithinLien ==
  /\ Settled =>
       \A u \in Users :
         TotalStaked(u) + TotalUnbonding(u) <= LienAmount(u, CrossStaking)
  /\ es_last.op = "withdraw_unbonded"
       => es_last.res \notin {"UnknownLienholder", "InsufficientLien"}

\* C37: in every reachable state of the external-staking contract the
\* total_stake of a validator is the sum of the stakes of all users on it.
C37_TotalStakeIsSum ==
  \A v \in Validators :
    TotalStakeOf(v) = SumOver([u \in Users |-> StakeOn(u, v)], Users)

\* one user holds a stake on a validator on which another user has just
\* unstaked
C37_Witness ==
  \E v \in Validators : \E u1 \in Users : \E u2 \in Users \ {u1} :
    /\ StakeOn(u1, v) > 0
    /\ MayLoadStake(stakes, u2, v).pending_unbonds # <<>>
    /\ es_last = Call("unstake", "ok", 0)

\* the pending txs of the external-staking contract that reference a stake
\* record, and those that reference a validator
TxsOnStake(u, v) ==
  {i \in TxIds : pending_txs[i] # NoTx /\ pending_txs[i].user = u
                                       /\ pending_txs[i].validator = v}

TxsOnValidator(v) ==
  {i \in TxIds : pending_txs[i] # NoTx /\ pending_txs[i].validator = v}

\* C38: no write lock leaks: a Stake record that no pending tx references
\* is unlocked, and a Distribution that no pending tx references is
\* unlocked.
C38_NoLockLeak ==
  /\ \A u \in Users, v \in Validators :
       TxsOnStake(u, v) = {} => MayLoadStake(stakes, u, v).lock = "Unlocked"
  /\ \A v \in Validators :
       TxsOnValidator(v) = {}
         => MayLoadDistribution(distribution, v).lock = "Unlocked"

\* the outcome of calculate_reward for a user on a validator
RewardOutcome(u, v) ==
  CalculateReward(MayLoadStake(stakes, u, v), MayLoadDistribution(distribution, v)).res

\* all that the users have withdrawn from the rewards of a validator
TotalWithdrawn(v) ==
  SumOver([u \in Users |-> MayLoadStake(stakes, u, v).withdrawn_funds], Users)

\* C39: rewards are never over-paid: calculate_reward never underflows, what
\* the users have withdrawn from a validator never exceeds what was
\* distributed to it, a successful withdraw_rewards leaves nothing to
\* withdraw, and only distribute_rewards makes the reward of a user grow, so
\* that a second withdraw_rewards with no distribution in between pays zero.
C39_RewardsNeverOverPaid ==
  /\ [](\A u \in Users, v \in Validators : RewardOutcome(u, v) = "ok")
  /\ [](\A v \in Validators : TotalWithdrawn(v) <= distributed[v])
  /\ [][\A u \in Users, v \in Validators :
          /\ (es_last'.op = "withdraw_rewards" /\ es_last'.res = "ok"
              /\ WithdrawRewards(u, v))
               => PendingReward(u, v)' = 0
          /\ es_last'.op # "distribute_rewards"
               => PendingReward(u, v)' <= PendingReward(u, v)]_vars

\* a user who has withdrawn a reward, and whose stake has changed since the
\* last distribution, withdraws again and is paid nothing
C39_Witness ==
  /\ es_last = Call("withdraw_rewards", "ok", 0)
  /\ \E u \in Users :
       /\ MayLoadStake(stakes, u, PairValidator).withdrawn_funds > 0
       /\ MayLoadStake(stakes, u, PairValidator).points_alignment # 0
       /\ MayLoadStake(stakes, u, PairValidator).lock = "Unlocked"

\* C40: commit_tx and rollback_tx leave unchanged the UserInfo and the liens
\* of every address other than the user of the tx they resolve, and every
\* other pending tx.
C40_ResolveTouchesOnlyTxUser ==
  [][\A i \in TxIds, u \in Addrs :
       (/\ last'.op \in {"commit_tx", "rollback_tx"}
        /\ last'.res = "ok"
        /\ pending[i] # NoTx
        /\ pending'[i] = NoTx
        /\ u = pending[i].user)
         => /\ \A a \in Addrs \ {u} :
                 /\ users'[a] = users[a]
                 /\ \A lh \in Lienholders : liens'[<<a, lh>>] = liens[<<a, lh>>]
            /\ \A j \in TxIds \ {i} : pending'[j] = pending[j]]_vars
====
